---- MODULE Spec2Model ----
(***************************************************************************)
(* A model of repoman's clone pool: the Roster (the sqlite ledger of clone *)
(* records, src/repoman/roster.py) and the DepotManager that reserves,     *)
(* provisions and frees workspaces on top of it                            *)
(* (src/repoman/depot_manager.py).                                         *)
(*                                                                         *)
(* Callers are independent processes.  Every SQL statement (with the       *)
(* commit that follows it) is one atomic step; the Python code between two *)
(* statements belongs to the step of the statement it leads to.  The clock *)
(* (Roster._get_time_) is a counter that may or may not advance between    *)
(* two steps.                                                              *)
(*                                                                         *)
(* The cascading refresh of a workspace through the main cache             *)
(* (src/repoman/depot.py) is modelled on two depots, the workspace W and   *)
(* the main cache C, with every call of the backend's grab_changesets      *)
(* written to a log.                                                       *)
(***************************************************************************)
EXTENDS Integers, FiniteSets, Sequences, TLC

\* ---------------------------------------------------------------- bounds
\* Number of caller processes; process p runs task id p.
NumProcs == 2
\* Number of distinct workspace paths.
MaxPaths == 2
\* The clock runs from 0 to MaxTime.
MaxTime == 2
\* Roster(max_clones=...): the pool limit of the modelled roster.
MaxClones == 1
\* Roster(clone_timeout=...): the reservation timeout, in clock units.
CloneTimeout == 1
\* A task asks for no further depot while it has this many.
MaxHandles == 2
\* Number of source URLs a requirement map may name.
MaxUrls == 2
\* Number of changeset names; name 1 is a branch name, the others are
\* revision ids or tags.
MaxChangesets == 2
\* Number of request_refresh calls made in a row.
MaxCalls == 2

Procs == 1..NumProcs
Paths == 1..MaxPaths

\* ------------------------------------------------------------ clone rows
FREE == "FREE"
INUSE == "INUSE"

\* The task name a process passes along with its task id.
TaskName(t) == 10 * t

\* Clone(path, status, task, task_name, timestamp): one row of the table.
Clone(path, status, task, task_name, timestamp) ==
    [path |-> path, status |-> status, task |-> task,
     task_name |-> task_name, timestamp |-> timestamp]

\* Python's None where a Clone is expected.
NoRow == Clone(0, "NONE", 0, 0, 0)

VARIABLES
    roster,   \* the clones table: a function from the stored paths to rows
    scan,     \* the stored paths in the order a scan of the table yields them
    now,      \* the value Roster._get_time_ returns
    proc,     \* per process: the running call, its position and its locals
    resv,     \* paths whose current row was written by reserve_clone's UPDATE
    pre,      \* the table, clock and workspaces at the start of the observed
              \* call
    dirs,     \* workspace directories created by _provision_new_clone
    dirty,    \* workspaces that carry local state of a holder
    held,     \* per task and path: the depots give_me_depot returned to the
              \* task and free_depot has not yet released
    dep,      \* the depots of a refresh: the main cache, a workspace, the
              \* running request_refresh and the grab_changesets calls made
    fs        \* the workspace directories that are depots, the workspaces
              \* that hold a lock file nobody will release, and whether
              \* the main cache holds one

vars == <<roster, scan, now, proc, resv, pre, dirs, dirty, held, dep, fs>>
mgrVars == <<dirs, dirty, held, fs>>

\* A process that runs no call.
Idle ==
    [pc |-> "idle", op |-> "none", path |-> 0, key |-> 0, value |-> NoRow,
     ret |-> "none", old |-> {}, ts |-> 0, upd |-> 0,
     result |-> "none", rec |-> NoRow]

NoSnap ==
    [roster |-> <<>>, now |-> 0, dirs |-> {}, dirty |-> {}, calls |-> 0,
     main |-> "none", cache |-> {}, set |-> FALSE]
Snap ==
    [roster |-> roster, now |-> now, dirs |-> dirs, dirty |-> dirty,
     calls |-> dep.calls, main |-> dep.main, cache |-> dep.has["C"],
     set |-> TRUE]

\* ------------------------------------------------------- SQL and helpers
\* 'path in self' / SELECT * FROM clones WHERE path=?
Contains(r, key) == key \in DOMAIN r

\* REPLACE INTO clones VALUES (...): insert the row or overwrite the one
\* with the same primary key.
ReplaceInto(r, row) ==
    [x \in DOMAIN r \cup {row.path} |-> IF x = row.path THEN row ELSE r[x]]

\* DELETE FROM clones WHERE path=?
DeleteFrom(r, key) == [x \in DOMAIN r \ {key} |-> r[x]]

\* The scan order without the row of key: the row was deleted.
Without(s, key) == SelectSeq(s, LAMBDA y : y # key)

\* The scan order after REPLACE INTO: sqlite deletes the row of the key, if
\* any, and inserts the new row with the next rowid, at the end of the scan.
Replaced(s, key) == Append(Without(s, key), key)

\* LIMIT 1 of a subquery, or fetchone(): of the rows S that match, the first
\* one in the scan order s.
First(s, S) ==
    s[CHOOSE i \in 1..Len(s) :
        /\ s[i] \in S
        /\ \A j \in 1..(i - 1) : s[j] \notin S]

\* The ownership check with the status test inverted.
OwnershipConflictOnFree(prev, value) ==
    prev.task # value.task /\ prev.status = FREE

\* __setitem__'s ownership check: the stored row is reserved by another task.
OwnershipConflict(prev, value) ==
    prev.task # value.task /\ prev.status # FREE

\* The age test with the subtraction the wrong way round.
IsOldReversed(row, current) == row.timestamp - current > CloneTimeout

\* _get_old_clones_'s test: the row's age exceeds the timeout.
IsOld(row, current) == current - row.timestamp > CloneTimeout

\* _get_old_clones_: the rows older than the timeout.
GetOldClones(r, current) == {r[x] : x \in {y \in DOMAIN r : IsOld(r[y], current)}}

\* The subquery finding no row.
ReservableNone(r) == {}

\* reserve_clone's subquery: SELECT path FROM clones WHERE status=FREE.
Reservable(r) == {x \in DOMAIN r : r[x].status = FREE}

\* reserve_clone's check query: the rows with this task, task name and
\* timestamp.
ReservedRows(r, task, task_name, timestamp) ==
    {x \in DOMAIN r : /\ r[x].task = task
                      /\ r[x].task_name = task_name
                      /\ r[x].timestamp = timestamp}

\* The limit test one row late.
LimitExceeded(r) == Cardinality(DOMAIN r) > MaxClones

\* add's limit test on SELECT count(*).
LimitReached(r) == Cardinality(DOMAIN r) = MaxClones

\* free_clone without the assignment of the status.
FreedKeepsStatus(clone, task) == [clone EXCEPT !.task = task]

\* free_clone's assignments to the clone it is handed.
Freed(clone, task) == [clone EXCEPT !.task = task, !.status = FREE]

\* The rows of the table in the order a SELECT * yields them.
Rows(r, s) == [i \in 1..Len(s) |-> r[s[i]]]

\* get_available: SELECT * FROM clones WHERE status=FREE.
GetAvailable(r, s) == SelectSeq(Rows(r, s), LAMBDA c : c.status = FREE)

\* The query of the INUSE rows leaving out the rows of task 1.
GetNotAvailableOthers(r, s) ==
    SelectSeq(Rows(r, s), LAMBDA c : c.status = INUSE /\ c.task # 1)

\* get_not_available: SELECT * FROM clones WHERE status=INUSE.
GetNotAvailable(r, s) == SelectSeq(Rows(r, s), LAMBDA c : c.status = INUSE)

\* _get_first_matching_clone(clone_list, path): the first clone of the list
\* with this path, or None.
GetFirstMatchingClone(clone_list, path) ==
    IF \E i \in 1..Len(clone_list) : clone_list[i].path = path
    THEN clone_list[CHOOSE i \in 1..Len(clone_list) :
            /\ clone_list[i].path = path
            /\ \A j \in 1..(i - 1) : clone_list[j].path # path]
    ELSE NoRow

\* DepotManager.get_available_clone(path).
GetAvailableClone(r, s, path) ==
    GetFirstMatchingClone(GetAvailable(r, s), path)

\* DepotManager.get_not_available_clone(path).
GetNotAvailableClone(r, s, path) ==
    GetFirstMatchingClone(GetNotAvailable(r, s), path)

\* ------------------------------------------------------------- stepping
Set(p, r) == proc' = [proc EXCEPT ![p] = r]

\* The call of process p ends with `result` (and the row it returns).
Finish(p, result, rec) ==
    IF pre.set
    THEN Set(p, [Idle EXCEPT !.pc = "done", !.op = proc[p].op,
                             !.path = proc[p].path, !.upd = proc[p].upd,
                             !.result = result, !.rec = rec])
    ELSE Set(p, Idle)

\* _clean_old_clones' loop over the rows still to free: free the next one,
\* or go on to add's count.
CleanNext(p, remaining) ==
    IF remaining = {}
    THEN Set(p, [proc[p] EXCEPT !.pc = "add_count", !.old = {},
                                !.key = 0, !.value = NoRow, !.ret = "none",
                                !.ts = IF proc[p].pc = "add_old"
                                       THEN now ELSE @])
    ELSE \E c \in remaining :
            Set(p, [proc[p] EXCEPT !.pc = "set_contains",
                                   !.ts = IF proc[p].pc = "add_old"
                                          THEN now ELSE @,
                                   !.key = c.path,
                                   !.value = Freed(c, c.task),
                                   !.ret = "clean",
                                   !.old = remaining \ {c}])

\* ---------------------------------------------------------------- clock
Tick ==
    /\ now < MaxTime
    /\ now' = now + 1
    /\ UNCHANGED <<roster, scan, proc, resv, pre, mgrVars, dep>>

\* -------------------------------------------------- Roster.reserve_clone
StartReserve(p) ==
    /\ proc[p].pc = "idle"
    /\ Set(p, [Idle EXCEPT !.pc = "rsv_update", !.op = "reserve_clone"])
    /\ UNCHANGED <<roster, scan, now, resv, mgrVars, dep>>

\* The UPDATE without the LIMIT 1 of its subquery: every FREE row is set.
RsvUpdateAll(p) ==
    /\ proc[p].pc = "rsv_update"
    /\ roster' = [x \in DOMAIN roster |->
                    IF roster[x].status = FREE
                    THEN Clone(x, INUSE, p, TaskName(p), now)
                    ELSE roster[x]]
    /\ UNCHANGED scan
    /\ resv' = resv \cup Reservable(roster)
    /\ Set(p, [proc[p] EXCEPT !.pc = "rsv_select", !.ts = now,
                              !.upd = IF Reservable(roster) = {} THEN 0
                                      ELSE First(scan, Reservable(roster))])
    /\ UNCHANGED <<now, pre, mgrVars, dep>>

\* The UPDATE ... WHERE path IN (SELECT ... WHERE status=FREE LIMIT 1), and
\* its commit.  The subquery yields the first FREE row of the scan; the
\* UPDATE leaves the row in its place.
RsvUpdate(p) ==
    /\ proc[p].pc = "rsv_update"
    /\ IF Reservable(roster) = {}
       THEN /\ Set(p, [proc[p] EXCEPT !.pc = "rsv_select", !.ts = now,
                                      !.upd = 0])
            /\ UNCHANGED <<roster, scan, resv>>
       ELSE LET x == First(scan, Reservable(roster)) IN
            /\ roster' = ReplaceInto(roster,
                            Clone(x, INUSE, p, TaskName(p), now))
            /\ UNCHANGED scan
            /\ resv' = resv \cup {x}
            /\ Set(p, [proc[p] EXCEPT !.pc = "rsv_select", !.ts = now,
                                      !.upd = x])
    /\ UNCHANGED <<now, pre, mgrVars, dep>>

\* The check query and fetchone(): the first row of the scan with this task,
\* task name and timestamp, or RosterError('No available clones').
RsvSelect(p) ==
    /\ proc[p].pc = "rsv_select"
    /\ LET rows == ReservedRows(roster, p, TaskName(p), proc[p].ts) IN
       IF rows = {}
       THEN IF proc[p].op = "give_me_depot"
            THEN Set(p, [proc[p] EXCEPT !.pc = "gmd_provision"])
            ELSE Finish(p, "RosterError", NoRow)
       ELSE LET x == First(scan, rows) IN
            IF proc[p].op = "give_me_depot"
            THEN Set(p, [proc[p] EXCEPT !.pc = "gmd_wrap", !.path = x])
            ELSE Finish(p, "ok", roster[x])
    /\ UNCHANGED <<roster, scan, now, resv, pre, mgrVars, dep>>

\* ------------------------------------------------- Roster.__setitem__
\* 'if key in self': the first SELECT.
SetContains(p) ==
    /\ proc[p].pc = "set_contains"
    /\ Set(p, [proc[p] EXCEPT !.pc = IF Contains(roster, proc[p].key)
                                     THEN "set_prev" ELSE "set_replace"])
    /\ UNCHANGED <<roster, scan, now, resv, pre, mgrVars, dep>>

\* 'prev = self[key]' and the ownership check.
SetPrev(p) ==
    /\ proc[p].pc = "set_prev"
    /\ IF ~Contains(roster, proc[p].key)
       THEN Finish(p, "KeyError", NoRow)
       ELSE IF OwnershipConflict(roster[proc[p].key], proc[p].value)
            THEN Finish(p, "RosterError", NoRow)
            ELSE Set(p, [proc[p] EXCEPT !.pc = "set_replace"])
    /\ UNCHANGED <<roster, scan, now, resv, pre, mgrVars, dep>>

\* _replace_item_: stamp the value, REPLACE INTO, commit.  What follows
\* depends on who assigned: free_clone, _clean_old_clones or add.
SetReplace(p) ==
    /\ proc[p].pc = "set_replace"
    /\ roster' = ReplaceInto(roster,
                    [proc[p].value EXCEPT !.path = proc[p].key,
                                          !.timestamp = now])
    /\ scan' = Replaced(scan, proc[p].key)
    /\ resv' = resv \ {proc[p].key}
    /\ CASE proc[p].ret = "clean" -> CleanNext(p, proc[p].old)
         [] proc[p].ret = "add" ->
              Set(p, [proc[p] EXCEPT !.pc = "add_get", !.value = NoRow,
                                     !.ret = "none"])
         [] OTHER -> Finish(p, "ok", NoRow)
    /\ held' = IF proc[p].op = "free_depot" /\ held[p][proc[p].key] > 0
               THEN [held EXCEPT ![p][proc[p].key] = @ - 1]
               ELSE held
    /\ UNCHANGED <<now, pre, dirs, dirty, dep, fs>>

\* ----------------------------------------------------- Roster.free_clone
\* free_clone(clone, task) by process p with its own task id.  The clone is
\* the stored row of the path, or a Clone of the caller's for a path that
\* is not stored.
StartFree(p, x) ==
    /\ proc[p].pc = "idle"
    /\ Set(p, [Idle EXCEPT !.pc = "set_contains", !.op = "free_clone",
                           !.path = x, !.key = x,
                           !.value = Freed(Clone(x, INUSE, p, TaskName(p), 0), p),
                           !.ret = "free"])
    /\ UNCHANGED <<roster, scan, now, resv, mgrVars, dep>>

\* A direct assignment roster[x] = value, the value being a Clone of the
\* caller's task with either status.
StartSetItem(p, x, status) ==
    /\ proc[p].pc = "idle"
    /\ Set(p, [Idle EXCEPT !.pc = "set_contains", !.op = "setitem",
                           !.path = x, !.key = x,
                           !.value = Clone(x, status, p, TaskName(p), 0),
                           !.ret = "free"])
    /\ UNCHANGED <<roster, scan, now, resv, mgrVars, dep>>

\* ------------------------------------------------------------ Roster.add
StartAdd(p, x) ==
    /\ proc[p].pc = "idle"
    /\ Set(p, [Idle EXCEPT !.pc = "add_contains", !.op = "add", !.path = x])
    /\ UNCHANGED <<roster, scan, now, resv, mgrVars, dep>>

\* add without the test of the path.
AddNoContains(p) ==
    /\ proc[p].pc = "add_contains"
    /\ Set(p, [proc[p] EXCEPT !.pc = "add_old"])
    /\ UNCHANGED <<roster, scan, now, resv, pre, mgrVars, dep>>

\* 'if path in self: raise RosterError'.
AddContains(p) ==
    /\ proc[p].pc = "add_contains"
    /\ IF Contains(roster, proc[p].path)
       THEN Finish(p, "RosterError", NoRow)
       ELSE Set(p, [proc[p] EXCEPT !.pc = "add_old"])
    /\ UNCHANGED <<roster, scan, now, resv, pre, mgrVars, dep>>

\* _get_old_clones_: SELECT * and the age test, then the first round of
\* _clean_old_clones' loop.
AddOld(p) ==
    /\ proc[p].pc = "add_old"
    /\ CleanNext(p, GetOldClones(roster, now))
    /\ UNCHANGED <<roster, scan, now, resv, pre, mgrVars, dep>>

\* SELECT count(*) and the limit test; below the limit, the assignment
\* self[path] = Clone(path, INUSE, task, task_name, 0) starts.
AddCount(p) ==
    /\ proc[p].pc = "add_count"
    /\ IF LimitReached(roster)
       THEN Finish(p, "MaxClonesLimitReached", NoRow)
       ELSE Set(p, [proc[p] EXCEPT
                      !.pc = "set_contains", !.key = proc[p].path,
                      !.value = Clone(proc[p].path, INUSE, p, TaskName(p), 0),
                      !.ret = "add"])
    /\ UNCHANGED <<roster, scan, now, resv, pre, mgrVars, dep>>

\* 'return self[clone.path]'.
AddGet(p) ==
    /\ proc[p].pc = "add_get"
    /\ IF ~Contains(roster, proc[p].path)
       THEN Finish(p, "KeyError", NoRow)
       ELSE IF proc[p].op = "give_me_depot"
            THEN Set(p, [proc[p] EXCEPT !.pc = "gmd_wrap"])
            ELSE Finish(p, "ok", roster[proc[p].path])
    /\ UNCHANGED <<roster, scan, now, resv, pre, mgrVars, dep>>

\* ------------------------------------------------------ Roster.__init__
\* Roster(location) in a process, on the file that is already there.
StartRosterInit(p) ==
    /\ proc[p].pc = "idle"
    /\ Set(p, [Idle EXCEPT !.pc = "roster_init", !.op = "roster_init"])
    /\ UNCHANGED <<roster, scan, now, resv, mgrVars, dep>>

\* The constructor making a new table.
RosterInitNewTable(p) ==
    /\ proc[p].pc = "roster_init"
    /\ roster' = <<>>
    /\ scan' = <<>>
    /\ resv' = {}
    /\ Finish(p, "ok", NoRow)
    /\ UNCHANGED <<now, pre, mgrVars, dep>>

\* sqlite3.connect and 'create table if not exists clones(...)': the table
\* of the file is the table of the new instance.
RosterInit(p) ==
    /\ proc[p].pc = "roster_init"
    /\ roster' = roster
    /\ scan' = scan
    /\ resv' = resv
    /\ Finish(p, "ok", NoRow)
    /\ UNCHANGED <<now, pre, mgrVars, dep>>

\* ---------------------------------------------------- Roster.__delitem__
\* del roster[x]: one DELETE and its commit.
DelItem(p, x) ==
    /\ proc[p].pc = "idle"
    /\ roster' = DeleteFrom(roster, x)
    /\ scan' = Without(scan, x)
    /\ resv' = resv \ {x}
    /\ Set(p, Idle)
    /\ UNCHANGED <<now, mgrVars, dep>>

\* The caller takes the result; the process is idle again.
Return(p) ==
    /\ proc[p].pc = "done"
    /\ Set(p, Idle)
    /\ pre' = NoSnap
    /\ UNCHANGED <<roster, scan, now, resv, mgrVars, dep>>

\* The number of depots task p has of the paths in S.
RECURSIVE Handles(_, _)
Handles(p, S) ==
    IF S = {} THEN 0
    ELSE LET x == CHOOSE y \in S : TRUE IN held[p][x] + Handles(p, S \ {x})

\* ------------------------------------------ DepotManager.give_me_depot
\* give_me_depot(task_guid, task_name) with no requirements and no default
\* source; it starts with roster.reserve_clone.
StartGive(p) ==
    /\ proc[p].pc = "idle"
    /\ Handles(p, Paths) < MaxHandles
    /\ Set(p, [Idle EXCEPT !.pc = "rsv_update", !.op = "give_me_depot"])
    /\ UNCHANGED <<roster, scan, now, resv, mgrVars, dep>>

\* The except branch: _provision_new_clone makes a directory no workspace
\* has yet (tempfile.mkdtemp) and initialises the depot in it; roster.add
\* follows.  With no unused path left mkdtemp fails, which
\* _provision_new_clone turns into CloneProvisionError.  init_depot either
\* returns the Depot or, having caught its own failure, False; False is
\* returned to give_me_depot, whose clone.path then raises AttributeError.
GmdProvision(p) ==
    /\ proc[p].pc = "gmd_provision"
    /\ IF Paths \ dirs = {}
       THEN /\ Finish(p, "CloneProvisionError", NoRow)
            /\ UNCHANGED <<dirs, fs>>
       ELSE \E x \in Paths \ dirs :
            /\ dirs' = dirs \cup {x}
            /\ \/ /\ Set(p, [proc[p] EXCEPT !.pc = "add_contains",
                                            !.path = x])
                  /\ fs' = [fs EXCEPT !.depots = @ \cup {x}]
               \/ /\ Finish(p, "AttributeError", NoRow)
                  /\ UNCHANGED fs
    /\ UNCHANGED <<roster, scan, now, resv, pre, dirty, held, dep>>

\* The depot of the reserved or added row, which get_depot_from_path has
\* wrapped after removing its lock files, is returned to the task.
GmdReturn(p) ==
    /\ proc[p].pc = "gmd_wrap"
    /\ held' = [held EXCEPT ![p][proc[p].path] = @ + 1]
    /\ fs' = [fs EXCEPT !.locks = @ \ {proc[p].path}]
    /\ Finish(p, "ok", NoRow)
    /\ UNCHANGED <<roster, scan, now, resv, pre, dirs, dirty, dep>>

\* give_me_depot with a default source: 'clone.set_source(default_source)'
\* on the depot of the reserved or added row, which get_depot_from_path has
\* wrapped after removing its lock files.  set_source returns, and the
\* depot is returned to the task, or it raises the backend's error (hg:
\* CommandError, ServerError or ResponseError while reading the depot's
\* paths), which give_me_depot lets through.
GmdSetSource(p) ==
    /\ proc[p].pc = "gmd_wrap"
    /\ fs' = [fs EXCEPT !.locks = @ \ {proc[p].path}]
    /\ \/ /\ held' = [held EXCEPT ![p][proc[p].path] = @ + 1]
          /\ Finish(p, "ok", NoRow)
       \/ /\ UNCHANGED held
          /\ Finish(p, "CommandError", NoRow)
    /\ UNCHANGED <<roster, scan, now, resv, pre, dirs, dirty, dep>>

\* ------------------------------------ DepotManager.give_me_depot_from_path
\* give_me_depot_from_path(path) by a task, for any path.
StartGiveFromPath(p, x) ==
    /\ proc[p].pc = "idle"
    /\ Set(p, [Idle EXCEPT !.pc = "gfp_check",
                           !.op = "give_me_depot_from_path", !.path = x])
    /\ UNCHANGED <<roster, scan, now, resv, mgrVars, dep>>

\* give_me_depot_from_path asking the ledger for a record of the path.
GfpCheckLedger(p) ==
    /\ proc[p].pc = "gfp_check"
    /\ IF proc[p].path \in fs.depots /\ Contains(roster, proc[p].path)
       THEN /\ fs' = [fs EXCEPT !.locks = @ \ {proc[p].path}]
            /\ Finish(p, "ok", NoRow)
       ELSE /\ UNCHANGED fs
            /\ Finish(p, "CloneProvisionError", NoRow)
    /\ UNCHANGED <<roster, scan, now, resv, pre, dirs, dirty, held, dep>>

\* 'if self.dvcs.is_a_depot(path)': get_depot_from_path removes the lock
\* files of the depot and wraps it; any other path gives
\* CloneProvisionError.  The ledger is not read.
GfpCheck(p) ==
    /\ proc[p].pc = "gfp_check"
    /\ IF proc[p].path \in fs.depots
       THEN /\ fs' = [fs EXCEPT !.locks = @ \ {proc[p].path}]
            /\ Finish(p, "ok", NoRow)
       ELSE /\ UNCHANGED fs
            /\ Finish(p, "CloneProvisionError", NoRow)
    /\ UNCHANGED <<roster, scan, now, resv, pre, dirs, dirty, held, dep>>

\* --------------------------------------------- DepotManager.free_depot
\* free_depot(depot, task_guid) by a task on a depot it was given.
StartFreeDepot(p, x) ==
    /\ proc[p].pc = "idle"
    /\ held[p][x] > 0
    /\ Set(p, [Idle EXCEPT !.pc = "fd_clear", !.op = "free_depot",
                           !.path = x])
    /\ UNCHANGED <<roster, scan, now, resv, mgrVars, dep>>

\* free_depot(depot, task_guid) by a task on the depot of a workspace it
\* was not given (a depot from give_me_depot_from_path, or another task's).
StartFreeDepotOther(p, x) ==
    /\ proc[p].pc = "idle"
    /\ x \in dirs
    /\ held[p][x] = 0
    /\ Set(p, [Idle EXCEPT !.pc = "fd_clear", !.op = "free_depot",
                           !.path = x])
    /\ UNCHANGED <<roster, scan, now, resv, mgrVars, dep>>

\* free_depot without the call of clear_depot.
FdNoClear(p) ==
    /\ proc[p].pc = "fd_clear"
    /\ Set(p, [proc[p] EXCEPT !.pc = "fd_lookup"])
    /\ UNCHANGED <<roster, scan, now, resv, pre, dirs, dirty, held, dep, fs>>

\* dvcs.clear_depot(depot.path).
FdClear(p) ==
    /\ proc[p].pc = "fd_clear"
    /\ dirty' = dirty \ {proc[p].path}
    /\ Set(p, [proc[p] EXCEPT !.pc = "fd_lookup"])
    /\ UNCHANGED <<roster, scan, now, resv, pre, dirs, held, dep, fs>>

\* free_depot deleting the record of the depot.
FdLookupDeletes(p) ==
    /\ proc[p].pc = "fd_lookup"
    /\ roster' = DeleteFrom(roster, proc[p].path)
    /\ scan' = Without(scan, proc[p].path)
    /\ resv' = resv \ {proc[p].path}
    /\ Finish(p, "ok", NoRow)
    /\ UNCHANGED <<now, pre, mgrVars, dep>>

\* get_not_available_clone(depot.path): the INUSE row of the path or None,
\* handed to roster.free_clone, which fails on None.
FdLookup(p) ==
    /\ proc[p].pc = "fd_lookup"
    /\ LET clone == GetNotAvailableClone(roster, scan, proc[p].path) IN
       IF clone # NoRow
       THEN Set(p, [proc[p] EXCEPT
                      !.pc = "set_contains", !.key = clone.path,
                      !.value = Freed(clone, p),
                      !.ret = "free"])
       ELSE Finish(p, "AttributeError", NoRow)
    /\ UNCHANGED <<roster, scan, now, resv, pre, mgrVars, dep>>

\* get_available_clone(path) or get_not_available_clone(path) by a task,
\* for any path: one SELECT and the search of the list.
Lookup(p, x, op) ==
    /\ proc[p].pc = "idle"
    /\ LET rec == IF op = "get_available_clone"
                  THEN GetAvailableClone(roster, scan, x)
                  ELSE GetNotAvailableClone(roster, scan, x) IN
       Set(p, [Idle EXCEPT !.pc = "done", !.op = op, !.path = x,
                           !.result = "ok", !.rec = rec])
    /\ UNCHANGED <<roster, scan, now, resv, mgrVars, dep>>

\* The holder of a depot makes local changes in its workspace: commits,
\* branches, tags, files.
Work(p, x) ==
    /\ proc[p].pc = "idle"
    /\ held[p][x] > 0
    /\ x \notin dirty
    /\ dirty' = dirty \cup {x}
    /\ UNCHANGED <<roster, scan, now, proc, resv, pre, dirs, held, dep, fs>>

\* ------------------------------------------------------------- Depot
Urls == 1..MaxUrls
Changesets == 1..MaxChangesets
Depots == {"W", "C"}

\* hg reports every branch name (and 'tip') as missing, present or not.
IsBranch(c) == c = 1

\* The requirement maps {url: [changeset, ...], ...}.
Requirements == UNION {[K -> SUBSET Changesets] : K \in SUBSET Urls}

\* check_changeset_availability(path, changesets), present being the
\* changesets of the depot at path: git returns the changesets it was asked
\* for; hg returns the branch names and the changesets its log does not
\* have.
CheckChangesetAvailability(kind, present, changesets) ==
    IF kind = "git"
    THEN changesets
    ELSE {c \in changesets : IsBranch(c) \/ c \notin present}

\* The filter keeping every source.
FilterKeepsAll(kind, present, requirements) ==
    [u \in DOMAIN requirements |->
        CheckChangesetAvailability(kind, present, requirements[u])]

\* Depot._filter_missing_changesets(requirements).
FilterMissingChangesets(kind, present, requirements) ==
    LET missing(u) ==
            CheckChangesetAvailability(kind, present, requirements[u])
    IN  [u \in {v \in DOMAIN requirements : missing(v) # {}} |-> missing(u)]

\* The state of the depots before any refresh: the backend kind, what
\* DepotManager.__init__ has as its main cache ("C", or "none" when
\* init_depot returned False), the changesets of each depot and the
\* requirement map of the caller.
DepStart(kind, main, has, req) ==
    [kind |-> kind, main |-> main, has |-> has, req |-> req,
     pc |-> "idle", on |-> "none", need |-> <<>>, todo |-> {},
     had |-> has, log |-> <<>>, mark |-> 0, ret |-> "none", calls |-> 0,
     prev |-> [on |-> "none", ret |-> "none"]]

\* Depot.parent: the workspace W is wrapped with parent=self.main_cache, the
\* main cache C with no parent.
Parent(d) == IF d = "W" THEN dep.main ELSE "none"

\* Every depot taken for the one without parent.
RootIsSelf(d) == d

\* The depot of d's chain that has no parent.
Root(d) == IF Parent(d) = "none" THEN d ELSE Parent(d)

\* One call of ops.grab_changesets(path of `to`, source, revs) and its
\* result; the source is a URL, or the path of depot src.
Grab(to, url, src, revs, ok) ==
    [to |-> to, url |-> url, src |-> src, revs |-> revs, ok |-> ok]

\* request_refresh(requirements) on depot d: _filter_missing_changesets,
\* then grab_changesets_from_upstream, which for a depot with a parent
\* enters the parent's _grab_changesets_to_ and there the parent's
\* grab_changesets_from_upstream.
Refreshing(d) ==
    LET need == FilterMissingChangesets(dep.kind, dep.has[d], dep.req) IN
    [dep EXCEPT !.pc = "upstream", !.on = d, !.need = need,
                !.todo = DOMAIN need, !.had = dep.has,
                !.mark = Len(dep.log), !.ret = "none"]

\* A call of request_refresh(requirements) on depot d.
RequestRefresh(d) ==
    /\ dep.pc = "idle"
    /\ dep.calls < MaxCalls
    /\ dep' = Refreshing(d)
    /\ UNCHANGED <<roster, scan, now, proc, resv, pre, mgrVars>>

\* The loop going on to the next source after a grab_changesets that
\* returned False.
GrabOutsideGoesOn(u, ok) ==
    /\ dep.pc = "upstream"
    /\ u \in dep.todo
    /\ LET to == Root(dep.on)
           call == Grab(to, u, "none", dep.need[u], ok) IN
       dep' = [dep EXCEPT !.log = Append(@, call),
                          !.has[to] = IF ok THEN @ \cup dep.need[u] ELSE @,
                          !.todo = @ \ {u}]
    /\ UNCHANGED <<roster, scan, now, proc, resv, pre, mgrVars>>

\* The loop of grab_changesets_from_upstream on the depot without parent:
\* one grab_changesets from a URL; False ends the loop and every caller up
\* the chain returns False.
GrabOutside(u, ok) ==
    /\ dep.pc = "upstream"
    /\ u \in dep.todo
    /\ LET to == Root(dep.on)
           call == Grab(to, u, "none", dep.need[u], ok) IN
       dep' = IF ok
              THEN [dep EXCEPT !.log = Append(@, call),
                               !.has[to] = @ \cup dep.need[u],
                               !.todo = @ \ {u}]
              ELSE [dep EXCEPT !.log = Append(@, call), !.todo = {},
                               !.pc = "done", !.ret = FALSE]
    /\ UNCHANGED <<roster, scan, now, proc, resv, pre, mgrVars>>

\* The loop is over: a depot without parent returns True; a parent goes on
\* to the loop of _grab_changesets_to_.
UpstreamDone ==
    /\ dep.pc = "upstream"
    /\ dep.todo = {}
    /\ dep' = IF Parent(dep.on) = "none"
              THEN [dep EXCEPT !.pc = "done", !.ret = TRUE]
              ELSE [dep EXCEPT !.pc = "copy", !.todo = DOMAIN dep.need]
    /\ UNCHANGED <<roster, scan, now, proc, resv, pre, mgrVars>>

\* The loop of _grab_changesets_to_: one grab_changesets from the parent's
\* path into the child's.
GrabLocal(u, ok) ==
    /\ dep.pc = "copy"
    /\ u \in dep.todo
    /\ LET call == Grab(dep.on, 0, Parent(dep.on), dep.need[u], ok) IN
       dep' = IF ok
              THEN [dep EXCEPT !.log = Append(@, call),
                               !.has[dep.on] = @ \cup dep.need[u],
                               !.todo = @ \ {u}]
              ELSE [dep EXCEPT !.log = Append(@, call), !.todo = {},
                               !.pc = "done", !.ret = FALSE]
    /\ UNCHANGED <<roster, scan, now, proc, resv, pre, mgrVars>>

\* _grab_changesets_to_ returns True and so does the child.
CopyDone ==
    /\ dep.pc = "copy"
    /\ dep.todo = {}
    /\ dep' = [dep EXCEPT !.pc = "done", !.ret = TRUE]
    /\ UNCHANGED <<roster, scan, now, proc, resv, pre, mgrVars>>

\* The depots after request_refresh has returned.
Refreshed ==
    [dep EXCEPT !.pc = "idle", !.calls = @ + 1,
                !.prev = [on |-> dep.on, ret |-> dep.ret]]

\* The caller takes the result of request_refresh.
RefreshReturn ==
    /\ dep.pc = "done"
    /\ dep' = Refreshed
    /\ UNCHANGED <<roster, scan, now, proc, resv, pre, mgrVars>>

\* give_me_depot with requirements: 'clone.request_refresh(requirements)'
\* on the depot of the reserved or added row, which get_depot_from_path has
\* wrapped after removing its lock files.
GmdRefresh(p) ==
    /\ proc[p].pc = "gmd_wrap"
    /\ dep.pc = "idle"
    /\ dep.calls < MaxCalls
    /\ dep' = Refreshing("W")
    /\ fs' = [fs EXCEPT !.locks = @ \ {proc[p].path}]
    /\ Set(p, [proc[p] EXCEPT !.pc = "gmd_refresh"])
    /\ UNCHANGED <<roster, scan, now, resv, pre, dirs, dirty, held>>

\* give_me_depot failing when request_refresh returned False.
GmdRefreshedOrFails(p) ==
    /\ proc[p].pc = "gmd_refresh"
    /\ dep.pc = "done"
    /\ dep' = Refreshed
    /\ IF dep.ret = TRUE
       THEN /\ held' = [held EXCEPT ![p][proc[p].path] = @ + 1]
            /\ Finish(p, "ok", NoRow)
       ELSE /\ UNCHANGED held
            /\ Finish(p, "CloneProvisionError", NoRow)
    /\ UNCHANGED <<roster, scan, now, resv, pre, dirs, dirty, fs>>

\* request_refresh has returned; give_me_depot drops its result and
\* returns the depot.
GmdRefreshed(p) ==
    /\ proc[p].pc = "gmd_refresh"
    /\ dep.pc = "done"
    /\ dep' = Refreshed
    /\ held' = [held EXCEPT ![p][proc[p].path] = @ + 1]
    /\ Finish(p, "ok", NoRow)
    /\ UNCHANGED <<roster, scan, now, resv, pre, dirs, dirty, fs>>

\* ------------------------------------------- DepotManager.__init__
\* DepotManager(main_workspace, repo_kind) in a process, over the root
\* directory that is already there.
StartConstruct(p) ==
    /\ proc[p].pc = "idle"
    /\ dep.pc = "idle"
    /\ Set(p, [Idle EXCEPT !.pc = "construct", !.op = "construct"])
    /\ UNCHANGED <<roster, scan, now, resv, mgrVars, dep>>

\* The constructor initialising the main cache whether or not it is there.
ConstructAlwaysInits(p) ==
    /\ proc[p].pc = "construct"
    /\ \/ dep' = [dep EXCEPT !.main = "C", !.has["C"] = {}]
       \/ dep' = [dep EXCEPT !.main = "none", !.has["C"] = {}]
    /\ Finish(p, "ok", NoRow)
    /\ UNCHANGED <<roster, scan, now, resv, pre, mgrVars>>

\* The body of __init__: the main cache is wrapped when is_a_depot says it
\* is one, otherwise init_depot makes it, or fails and leaves False as the
\* main cache; Roster() opens the file and creates the table if it does
\* not exist.
Construct(p) ==
    /\ proc[p].pc = "construct"
    /\ IF dep.main = "C"
       THEN UNCHANGED dep
       ELSE \/ dep' = [dep EXCEPT !.main = "C", !.has["C"] = {}]
            \/ UNCHANGED dep
    /\ Finish(p, "ok", NoRow)
    /\ UNCHANGED <<roster, scan, now, resv, pre, mgrVars>>

\* ------------------------------------------------ abandoned operations
\* A process that is gone.
Dead == [Idle EXCEPT !.pc = "dead"]

\* The holder of a depot leaves a lock file in its workspace (an operation
\* of its own that was killed).
LeaveLock(p, x) ==
    /\ proc[p].pc = "idle"
    /\ held[p][x] > 0
    /\ x \notin fs.locks
    /\ fs' = [fs EXCEPT !.locks = @ \cup {x}]
    /\ UNCHANGED <<roster, scan, now, proc, resv, pre, dirs, dirty, held, dep>>

\* The machine goes down while grab_changesets of give_me_depot's refresh
\* writes into a depot: the depot keeps its lock file, every process is
\* gone and with it the depots the tasks had; the ledger file stays.
Crash(p) ==
    /\ proc[p].pc = "gmd_refresh"
    /\ \/ /\ dep.pc = "upstream"
          /\ dep.todo # {}
          /\ fs' = IF Root("W") = "W"
                   THEN [fs EXCEPT !.locks = @ \cup {proc[p].path}]
                   ELSE [fs EXCEPT !.cachelock = TRUE]
       \/ /\ dep.pc = "copy"
          /\ dep.todo # {}
          /\ fs' = [fs EXCEPT !.locks = @ \cup {proc[p].path}]
    /\ dep' = [dep EXCEPT !.pc = "idle", !.calls = @ + 1, !.todo = {},
                          !.prev = [on |-> dep.on, ret |-> "none"]]
    /\ proc' = [q \in Procs |-> Dead]
    /\ held' = [q \in Procs |-> [x \in Paths |-> 0]]
    /\ pre' = NoSnap
    /\ UNCHANGED <<roster, scan, now, resv, dirs, dirty>>

\* A process comes back and constructs its DepotManager: __init__ as in
\* Construct; a main cache made by init_depot comes from
\* get_depot_from_path, which removes lock files, a main cache that is
\* already a depot is wrapped as it is.
Restart(p) ==
    /\ proc[p].pc = "dead"
    /\ IF dep.main = "C"
       THEN UNCHANGED <<dep, fs>>
       ELSE \/ /\ dep' = [dep EXCEPT !.main = "C", !.has["C"] = {}]
               /\ fs' = [fs EXCEPT !.cachelock = FALSE]
            \/ UNCHANGED <<dep, fs>>
    /\ Set(p, Idle)
    /\ UNCHANGED <<roster, scan, now, resv, pre, dirs, dirty, held>>

\* ------------------------------------------------------- specifications
\* The empty pool: Roster.__init__ on a new file, no workspace yet.
PoolInit ==
    /\ roster = <<>>
    /\ scan = <<>>
    /\ now = 0
    /\ proc = [p \in Procs |-> Idle]
    /\ resv = {}
    /\ pre = NoSnap
    /\ dirs = {}
    /\ dirty = {}
    /\ held = [p \in Procs |-> [x \in Paths |-> 0]]
    /\ fs = [depots |-> {}, locks |-> {}, cachelock |-> FALSE]

Init ==
    /\ PoolInit
    /\ dep = DepStart("hg", "C", [d \in Depots |-> {}], <<>>)

\* The steps inside Roster's methods.
RosterStep(p) ==
    \/ RsvUpdate(p)
    \/ RsvSelect(p)
    \/ SetContains(p)
    \/ SetPrev(p)
    \/ SetReplace(p)
    \/ AddContains(p)
    \/ AddOld(p)
    \/ AddCount(p)
    \/ AddGet(p)

\* A call of reserve_clone, free_clone, add or __delitem__.
RosterCall(p) ==
    \/ StartReserve(p)
    \/ \E x \in Paths : StartFree(p, x)
    \/ \E x \in Paths : StartAdd(p, x)
    \/ \E x \in Paths : DelItem(p, x)

\* Concurrent processes calling the Roster.
Next ==
    \/ Tick
    \/ \E p \in Procs :
        \/ RosterCall(p) /\ UNCHANGED pre
        \/ RosterStep(p)

Spec == Init /\ [][Next]_vars

\* One call at a time, direct assignments included; the table and the clock
\* at the start of each call are kept in pre and the result is kept until
\* the caller takes it.
OthersIdle(p) == \A q \in Procs \ {p} : proc[q].pc = "idle"

SeqNext ==
    \/ Tick
    \/ \E p \in Procs :
        /\ OthersIdle(p)
        /\ \/ RosterCall(p) /\ pre' = Snap
           \/ (\E x \in Paths, s \in {FREE, INUSE} : StartSetItem(p, x, s))
                /\ pre' = Snap
           \/ StartRosterInit(p) /\ pre' = Snap
           \/ RosterInit(p)
           \/ RosterStep(p)
           \/ Return(p)

SeqSpec == Init /\ [][SeqNext]_vars

\* The race of reserve_clone calls: the table is first filled by direct
\* assignments, one at a time; once it holds exactly one FREE row every
\* process calls reserve_clone once, concurrently, and nothing else runs.
\* pre keeps the table the race started on.
RaceNext ==
    \/ Tick
    \/ \E p \in Procs :
        /\ ~pre.set
        /\ OthersIdle(p)
        /\ \/ (\E x \in Paths, s \in {FREE, INUSE} : StartSetItem(p, x, s))
                /\ UNCHANGED pre
           \/ SetContains(p)
           \/ SetPrev(p)
           \/ SetReplace(p)
    \/ \E p \in Procs :
        /\ pre.set \/ (OthersIdle(p) /\ Cardinality(Reservable(roster)) = 1)
        /\ StartReserve(p)
        /\ pre' = IF pre.set THEN pre ELSE Snap
    \/ \E p \in Procs : RsvUpdate(p) \/ RsvSelect(p)

RaceSpec == Init /\ [][RaceNext]_vars

\* The steps inside DepotManager's methods.
MgrStep(p) ==
    \/ GmdProvision(p)
    \/ GmdReturn(p)
    \/ FdClear(p)
    \/ FdLookup(p)

\* A call of give_me_depot or free_depot, or work in a held depot.
MgrCall(p) ==
    \/ StartGive(p) /\ UNCHANGED pre
    \/ (\E x \in Paths : StartFreeDepot(p, x)) /\ UNCHANGED pre
    \/ \E x \in Paths : Work(p, x)

\* Concurrent tasks calling the DepotManager.
MgrNext ==
    \/ Tick
    \/ \E p \in Procs : MgrCall(p) \/ MgrStep(p) \/ RosterStep(p)

MgrSpec == Init /\ [][MgrNext]_vars

\* The clock advances only as far as no stored row becomes older than the
\* timeout.
TickFresh ==
    /\ \A x \in DOMAIN roster : ~IsOld(roster[x], now + 1)
    /\ Tick

\* Concurrent tasks calling the DepotManager while no row is older than
\* clone_timeout.
MgrFreshNext ==
    \/ TickFresh
    \/ \E p \in Procs : MgrCall(p) \/ MgrStep(p) \/ RosterStep(p)

MgrFreshSpec == Init /\ [][MgrFreshNext]_vars

\* One DepotManager call at a time, free_depot on depots of other tasks,
\* the lookups and the construction of further DepotManagers over the same
\* root directory included; the table, the clock and the workspaces at the
\* start of each call are kept in pre and the result is kept until the
\* caller takes it.
MgrSeqNext ==
    \/ Tick
    \/ \E p \in Procs :
        /\ OthersIdle(p)
        /\ \/ StartGive(p) /\ pre' = Snap
           \/ (\E x \in Paths : StartFreeDepot(p, x)) /\ pre' = Snap
           \/ (\E x \in Paths : StartFreeDepotOther(p, x)) /\ pre' = Snap
           \/ (\E x \in Paths : StartGiveFromPath(p, x)) /\ pre' = Snap
           \/ GfpCheck(p)
           \/ (\E x \in Paths :
                 \E op \in {"get_available_clone", "get_not_available_clone"} :
                    Lookup(p, x, op)) /\ pre' = Snap
           \/ StartConstruct(p) /\ pre' = Snap
           \/ Construct(p)
           \/ \E x \in Paths : Work(p, x)
           \/ MgrStep(p)
           \/ RosterStep(p)
           \/ Return(p)

MgrSeqSpec == Init /\ [][MgrSeqNext]_vars

\* One DepotManager call at a time, give_me_depot with and without a
\* default source, the backend's set_source failing or not.
MgrSrcNext ==
    \/ Tick
    \/ \E p \in Procs :
        /\ OthersIdle(p)
        /\ \/ StartGive(p) /\ pre' = Snap
           \/ (\E x \in Paths : StartFreeDepot(p, x)) /\ pre' = Snap
           \/ MgrStep(p)
           \/ GmdSetSource(p)
           \/ RosterStep(p)
           \/ Return(p)

MgrSrcSpec == Init /\ [][MgrSrcNext]_vars

\* Refreshes of the workspace and of the main cache, for every backend,
\* every outcome of the main cache's initialisation, every content of the
\* two depots and every requirement map.
DepInit ==
    /\ PoolInit
    /\ \E kind \in {"hg", "git"}, main \in {"C", "none"},
          has \in [Depots -> SUBSET Changesets], req \in Requirements :
            dep = DepStart(kind, main, has, req)

DepNext ==
    \/ \E d \in Depots : RequestRefresh(d)
    \/ \E u \in Urls, ok \in BOOLEAN : GrabOutside(u, ok)
    \/ UpstreamDone
    \/ \E u \in Urls, ok \in BOOLEAN : GrabLocal(u, ok)
    \/ CopyDone
    \/ RefreshReturn

DepSpec == DepInit /\ [][DepNext]_vars

\* The pool with the depots of a DepotManager whose callers pass
\* requirements: every backend, every outcome of the main cache's
\* initialisation, every requirement map that asks one source for some
\* changesets; the depots start empty.
MgrRefInit ==
    /\ PoolInit
    /\ \E kind \in {"hg", "git"}, main \in {"C", "none"},
          req \in {r \in Requirements :
                     /\ Cardinality(DOMAIN r) = 1
                     /\ \A u \in DOMAIN r : r[u] # {}} :
            dep = DepStart(kind, main, [d \in Depots |-> {}], req)

\* One DepotManager call at a time, give_me_depot with and without
\* requirements and the construction of further DepotManagers over the
\* same root directory, within one reading of the clock.
MgrRefNext ==
    \/ \E p \in Procs :
        /\ OthersIdle(p)
        /\ \/ StartGive(p) /\ pre' = Snap
           \/ (\E x \in Paths : StartFreeDepot(p, x)) /\ pre' = Snap
           \/ MgrStep(p)
           \/ GmdRefresh(p)
           \/ GmdRefreshed(p)
           \/ StartConstruct(p) /\ pre' = Snap
           \/ Construct(p)
           \/ RosterStep(p)
           \/ Return(p)
    \/ \E u \in Urls, ok \in BOOLEAN : GrabOutside(u, ok)
    \/ UpstreamDone
    \/ \E u \in Urls, ok \in BOOLEAN : GrabLocal(u, ok)
    \/ CopyDone

MgrRefSpec == MgrRefInit /\ [][MgrRefNext]_vars

\* The pool and the depots of a DepotManager whose callers ask one source
\* for one changeset.
MgrLockInit ==
    /\ PoolInit
    /\ \E kind \in {"hg", "git"}, main \in {"C", "none"},
          u \in Urls, c \in Changesets :
            dep = DepStart(kind, main, [d \in Depots |-> {}],
                           [v \in {u} |-> {c}])

\* One DepotManager call at a time, give_me_depot with and without
\* requirements, with operations that are abandoned and leave lock files,
\* and processes that come back after the machine went down.
MgrLockNext ==
    \/ \E p \in Procs :
        /\ OthersIdle(p)
        /\ \/ StartGive(p) /\ pre' = Snap
           \/ (\E x \in Paths : StartFreeDepot(p, x)) /\ pre' = Snap
           \/ MgrStep(p)
           \/ GmdRefresh(p)
           \/ GmdRefreshed(p)
           \/ RosterStep(p)
           \/ Return(p)
           \/ \E x \in Paths : LeaveLock(p, x)
           \/ Crash(p)
    \/ \E p \in Procs : Restart(p)
    \/ \E u \in Urls, ok \in BOOLEAN : GrabOutside(u, ok)
    \/ UpstreamDone
    \/ \E u \in Urls, ok \in BOOLEAN : GrabLocal(u, ok)
    \/ CopyDone

MgrLockSpec == MgrLockInit /\ [][MgrLockNext]_vars

\* ---------------------------------------------------------------- claims
\* Process p has finished a call of `op` that started on pre.
Done(p, op) == pre.set /\ proc[p].pc = "done" /\ proc[p].op = op

\* The status of path x in table r.
StatusOf(r, x) == IF x \in DOMAIN r THEN r[x].status ELSE "ABSENT"

\* The row is older than clone_timeout at time t.
Stale(row, t) == t - row.timestamp > CloneTimeout

\* The FREE rows of table r.
FreeRows(r) == {x \in DOMAIN r : r[x].status = FREE}

\* C1: when every process has finished its reserve_clone call of a race
\* that started on a table with exactly one FREE row, exactly one caller
\* has received that row, INUSE with its task id, and every other caller
\* got RosterError.
C1_ExactlyOneWinner ==
    (pre.set /\ \A p \in Procs : proc[p].pc = "done") =>
        \E w \in Procs :
            /\ proc[w].result = "ok"
            /\ proc[w].rec.path \in FreeRows(pre.roster)
            /\ proc[w].rec.status = INUSE
            /\ proc[w].rec.task = w
            /\ \A q \in Procs \ {w} : proc[q].result = "RosterError"

\* C2: while no row is older than clone_timeout and tasks free only depots
\* they hold, no workspace path is held by two tasks at once.
C2_NoDoubleHold ==
    \A a, b \in Procs : \A x \in Paths :
        a # b => ~(held[a][x] > 0 /\ held[b][x] > 0)

\* C3: free_clone, or a direct assignment, by a task on a row that is INUSE
\* for another task fails with RosterError and leaves the table as it was.
C3_OwnershipKept ==
    \A p \in Procs :
        (/\ Done(p, "free_clone") \/ Done(p, "setitem")
         /\ proc[p].path \in DOMAIN pre.roster
         /\ pre.roster[proc[p].path].status = INUSE
         /\ pre.roster[proc[p].path].task # p)
        => /\ proc[p].result = "RosterError"
           /\ roster = pre.roster

\* A free_clone on another task's INUSE row has failed.
C3_Witness ==
    \E p \in Procs :
        /\ Done(p, "free_clone")
        /\ proc[p].path \in DOMAIN pre.roster
        /\ pre.roster[proc[p].path].status = INUSE
        /\ pre.roster[proc[p].path].task # p
        /\ proc[p].result = "RosterError"

\* C4: a row that reserve_clone set to INUSE for task t and that is not
\* older than clone_timeout is changed by no step but the REPLACE of t's
\* own free_clone, which sets it FREE (removal aside).
C4_ReservationKept ==
    [][\A x \in resv :
        (/\ ~Stale(roster[x], now)
         /\ x \in DOMAIN roster'
         /\ roster'[x] # roster[x])
        => LET t == roster[x].task IN
           /\ proc[t].op = "free_clone"
           /\ proc[t].pc = "set_replace"
           /\ proc[t].key = x
           /\ proc'[t] # proc[t]
           /\ roster'[x].status = FREE]_vars

\* C5: the table never holds more than max_clones rows.
C5_AtMostMaxClones == Cardinality(DOMAIN roster) <= MaxClones

\* C6, as claimed: add of a new path to a table that holds max_clones rows
\* fails with MaxClonesLimitReached and leaves every row as it was.
C6_AddAtLimitUnchanged ==
    \A p \in Procs :
        (/\ Done(p, "add")
         /\ Cardinality(DOMAIN pre.roster) = MaxClones
         /\ proc[p].path \notin DOMAIN pre.roster)
        => /\ proc[p].result = "MaxClonesLimitReached"
           /\ roster = pre.roster

\* C6, as amended: add of a new path to a table that holds max_clones rows
\* fails with MaxClonesLimitReached; the table holds the same paths
\* afterwards, every row that was older than clone_timeout when add began
\* is FREE, and each row is as it was unless it was older than
\* clone_timeout, in which case it was set FREE for its old task with a
\* new timestamp.
C6_AddAtLimitFails ==
    \A p \in Procs :
        (/\ Done(p, "add")
         /\ Cardinality(DOMAIN pre.roster) = MaxClones
         /\ proc[p].path \notin DOMAIN pre.roster)
        => /\ proc[p].result = "MaxClonesLimitReached"
           /\ DOMAIN roster = DOMAIN pre.roster
           /\ \A x \in DOMAIN roster :
                \/ roster[x] = pre.roster[x]
                \/ /\ Stale(pre.roster[x], now)
                   /\ roster[x] = [pre.roster[x] EXCEPT
                                     !.status = FREE,
                                     !.timestamp = roster[x].timestamp]
                   /\ roster[x].timestamp \in pre.now..now
           /\ \A x \in DOMAIN roster :
                Stale(pre.roster[x], pre.now) => roster[x].status = FREE

\* An add on a full table has failed with MaxClonesLimitReached and has
\* set FREE a row that was INUSE.
C6_Witness ==
    \E p \in Procs :
        /\ Done(p, "add")
        /\ Cardinality(DOMAIN pre.roster) = MaxClones
        /\ proc[p].path \notin DOMAIN pre.roster
        /\ proc[p].result = "MaxClonesLimitReached"
        /\ \E x \in DOMAIN pre.roster :
             /\ pre.roster[x].status = INUSE
             /\ roster[x].status = FREE

C8_AddReserveFreeReserve ==
    \A p \in Procs :
        /\ (Done(p, "add") /\ DOMAIN pre.roster = {})
           => /\ proc[p].result = "ok"
              /\ DOMAIN roster = {proc[p].path}
              /\ proc[p].rec = roster[proc[p].path]
              /\ proc[p].rec.status = INUSE
              /\ proc[p].rec.task = p
        /\ Done(p, "reserve_clone")
           => \A x \in Paths :
                (/\ DOMAIN pre.roster = {x}
                 /\ pre.roster[x].status = INUSE
                 /\ pre.roster[x].task # p)
                => /\ proc[p].result = "RosterError"
                   /\ roster = pre.roster
        /\ Done(p, "free_clone")
           => \A x \in Paths :
                (/\ DOMAIN pre.roster = {x}
                 /\ proc[p].path = x
                 /\ pre.roster[x].status = INUSE
                 /\ pre.roster[x].task = p)
                => /\ proc[p].result = "ok"
                   /\ DOMAIN roster = {x}
                   /\ roster[x].status = FREE
                   /\ roster[x].task = p
        /\ Done(p, "reserve_clone")
           => \A x \in Paths :
                (/\ DOMAIN pre.roster = {x}
                 /\ pre.roster[x].status = FREE
                 /\ pre.roster[x].task # p)
                => /\ proc[p].result = "ok"
                   /\ proc[p].rec = roster[x]
                   /\ proc[p].rec.path = x
                   /\ proc[p].rec.status = INUSE
                   /\ proc[p].rec.task = p
                   /\ DOMAIN roster = {x}

\* A reserve_clone has returned the only row of the table, which another
\* task had freed.
C8_Witness ==
    \E p \in Procs : \E x \in Paths :
        /\ Done(p, "reserve_clone")
        /\ DOMAIN pre.roster = {x}
        /\ pre.roster[x].status = FREE
        /\ pre.roster[x].task # p
        /\ proc[p].result = "ok"
        /\ proc[p].rec.path = x

\* C9: a step of reserve_clone, free_clone or add (its reclamation
\* included) changes the status of a path only from FREE to INUSE (the
\* UPDATE of reserve_clone), from INUSE to FREE (free_clone by the owner, or
\* the reclamation), from nonexistent to INUSE (add), or to nonexistent
\* (removal).
C9_OnlyListedTransitions ==
    [][\A x \in Paths : \A p \in Procs :
        (/\ StatusOf(roster, x) # StatusOf(roster', x)
         /\ proc'[p] # proc[p]
         /\ proc[p].op \in {"reserve_clone", "free_clone", "add"})
        => \/ /\ StatusOf(roster, x) = FREE
              /\ StatusOf(roster', x) = INUSE
              /\ proc[p].op = "reserve_clone"
           \/ /\ StatusOf(roster, x) = INUSE
              /\ StatusOf(roster', x) = FREE
              /\ \/ proc[p].op = "free_clone" /\ roster[x].task = p
                 \/ proc[p].op = "add" /\ proc[p].ret = "clean"
           \/ /\ StatusOf(roster, x) = "ABSENT"
              /\ StatusOf(roster', x) = INUSE
              /\ proc[p].op = "add"
           \/ StatusOf(roster', x) = "ABSENT"]_vars

\* C10: the workspace of every FREE row carries no local state of a
\* holder.
C10_FreeIsClean ==
    \A x \in DOMAIN roster : roster[x].status = FREE => x \notin dirty

\* C11: free_depot by the task that owns the record clears the workspace
\* before it reads or writes the table, and when it has returned the record
\* is still stored, FREE, and no record was added or removed.
C11_ClearThenFree ==
    \A p \in Procs :
        /\ (/\ proc[p].op = "free_depot"
            /\ proc[p].pc \in {"fd_lookup", "set_contains", "set_prev",
                               "set_replace"})
           => proc[p].path \notin dirty
        /\ (/\ Done(p, "free_depot")
            /\ proc[p].path \in DOMAIN pre.roster
            /\ pre.roster[proc[p].path].status = INUSE
            /\ pre.roster[proc[p].path].task = p)
           => /\ proc[p].result = "ok"
              /\ DOMAIN roster = DOMAIN pre.roster
              /\ roster[proc[p].path].status = FREE
              /\ proc[p].path \notin dirty

\* The owner's free_depot of a workspace with local state has returned.
C11_Witness ==
    \E p \in Procs :
        /\ Done(p, "free_depot")
        /\ proc[p].path \in DOMAIN pre.roster
        /\ pre.roster[proc[p].path].status = INUSE
        /\ pre.roster[proc[p].path].task = p
        /\ proc[p].path \in pre.dirty
        /\ proc[p].result = "ok"

\* C12: free_depot by a task on a depot whose record is INUSE for another
\* task fails with RosterError and leaves the table and the workspaces as
\* they were.
C12_RejectedFreeChangesNothing ==
    \A p \in Procs :
        (/\ Done(p, "free_depot")
         /\ proc[p].path \in DOMAIN pre.roster
         /\ pre.roster[proc[p].path].status = INUSE
         /\ pre.roster[proc[p].path].task # p)
        => /\ proc[p].result = "RosterError"
           /\ roster = pre.roster
           /\ dirty = pre.dirty

\* The grab_changesets calls of the running (or just finished)
\* request_refresh.
CallLog == SubSeq(dep.log, dep.mark + 1, Len(dep.log))

\* request_refresh on depot d has finished and its result is not yet taken.
RefreshDone(d) == dep.pc = "done" /\ dep.on = d

C14_WarmCacheNoOutsideGrab ==
    (/\ RefreshDone("W")
     /\ dep.main = "C"
     /\ DOMAIN dep.need # {}
     /\ \A u \in DOMAIN dep.need : dep.need[u] \subseteq dep.had["C"])
    => \A i \in 1..Len(CallLog) : CallLog[i].url = 0

\* C15: a second request_refresh with the same requirement map
\* on the same depot, after a first one that returned True, makes no
\* grab_changesets call.
C15_SecondRefreshNoGrab ==
    (/\ dep.pc = "done"
     /\ dep.calls = 1
     /\ dep.prev.on = dep.on
     /\ dep.prev.ret = TRUE)
    => Len(CallLog) = 0

C17_FilterKeepsMissing ==
    dep.pc # "idle" =>
        LET chk(u) == CheckChangesetAvailability(dep.kind, dep.had[dep.on],
                                                 dep.req[u]) IN
        /\ DOMAIN dep.need = {u \in DOMAIN dep.req : chk(u) # {}}
        /\ \A u \in DOMAIN dep.need : dep.need[u] = chk(u)
        /\ DOMAIN dep.need = {}
           => /\ Len(CallLog) = 0
              /\ dep.pc = "done" => dep.ret = TRUE

\* A refresh of the workspace whose requirements were all present has
\* returned.
C17_Witness ==
    /\ RefreshDone("W")
    /\ dep.main = "C"
    /\ DOMAIN dep.need = {}
    /\ \E u \in DOMAIN dep.req : dep.req[u] # {}
    /\ dep.ret = TRUE

\* C18: every grab_changesets from a URL has the main cache as its target.
C18_OnlyMainCacheGrabsOutside ==
    \A i \in 1..Len(dep.log) : dep.log[i].url # 0 => dep.log[i].to = "C"

\* C19: give_me_depot makes a new workspace directory or a new record only
\* when the ledger had no FREE record; when it had one, the call succeeds,
\* the ledger keeps its paths, one of the FREE records is now INUSE for the
\* caller and there is one FREE record less; and whenever the call
\* succeeds, the record of the returned depot is INUSE with the caller's
\* task id.
C19_ReserveBeforeProvision ==
    \A p \in Procs :
        Done(p, "give_me_depot") =>
            /\ (dirs # pre.dirs \/ DOMAIN roster # DOMAIN pre.roster)
               => FreeRows(pre.roster) = {}
            /\ FreeRows(pre.roster) # {}
               => /\ proc[p].result = "ok"
                  /\ DOMAIN roster = DOMAIN pre.roster
                  /\ \E x \in FreeRows(pre.roster) :
                        /\ roster[x].status = INUSE
                        /\ roster[x].task = p
                        /\ FreeRows(roster) = FreeRows(pre.roster) \ {x}
            /\ proc[p].result = "ok"
               => /\ proc[p].path \in DOMAIN roster
                  /\ roster[proc[p].path].status = INUSE
                  /\ roster[proc[p].path].task = p

\* give_me_depot has returned a depot on a ledger that had a FREE record.
C19_Witness ==
    \E p \in Procs :
        /\ Done(p, "give_me_depot")
        /\ FreeRows(pre.roster) # {}
        /\ proc[p].result = "ok"
        /\ roster[proc[p].path].task = p

\* C20: a give_me_depot that fails, fails with CloneProvisionError.
C20_FailsWithCloneProvisionError ==
    \A p \in Procs :
        (Done(p, "give_me_depot") /\ proc[p].result # "ok")
        => proc[p].result = "CloneProvisionError"

\* C21: a give_me_depot that fails because the pool is at max_clones ends
\* with MaxClonesLimitReached, and only then: the new directory was made
\* and initialised and the ledger held max_clones records; a failed
\* directory creation ends with CloneProvisionError and a failed
\* init_depot with AttributeError, neither of which is the error of the
\* full pool; and a call that added a record started below the limit.
C21_PoolLimitDistinguishable ==
    \A p \in Procs :
        Done(p, "give_me_depot") =>
            /\ proc[p].result \in {"ok", "MaxClonesLimitReached",
                                   "CloneProvisionError", "AttributeError"}
            /\ proc[p].result = "MaxClonesLimitReached"
               => /\ Cardinality(DOMAIN pre.roster) >= MaxClones
                  /\ dirs # pre.dirs
                  /\ DOMAIN roster = DOMAIN pre.roster
            /\ proc[p].result = "CloneProvisionError"
               => pre.dirs = Paths /\ dirs = pre.dirs
            /\ proc[p].result = "AttributeError"
               => dirs # pre.dirs /\ DOMAIN roster = DOMAIN pre.roster
            /\ DOMAIN roster # DOMAIN pre.roster
               => /\ proc[p].result = "ok"
                  /\ Cardinality(DOMAIN pre.roster) < MaxClones

\* give_me_depot has failed on a full pool.
C21_Witness ==
    \E p \in Procs :
        /\ Done(p, "give_me_depot")
        /\ proc[p].result = "MaxClonesLimitReached"
        /\ Cardinality(DOMAIN pre.roster) >= MaxClones

\* C22: a give_me_depot whose request_refresh returned False has still
\* returned the depot, and the record of that depot is INUSE with the
\* caller's task id.
C22_FailedRefreshKeepsDepot ==
    \A p \in Procs :
        (/\ Done(p, "give_me_depot")
         /\ dep.calls = pre.calls + 1
         /\ dep.prev.ret = FALSE)
        => /\ proc[p].result = "ok"
           /\ held[p][proc[p].path] > 0
           /\ proc[p].path \in DOMAIN roster
           /\ roster[proc[p].path].status = INUSE
           /\ roster[proc[p].path].task = p

\* give_me_depot has returned after a request_refresh that returned False.
C22_Witness ==
    \E p \in Procs :
        /\ Done(p, "give_me_depot")
        /\ dep.calls = pre.calls + 1
        /\ dep.prev.ret = FALSE
        /\ proc[p].result = "ok"

\* C23: give_me_depot_from_path(path) returns a depot when path is a depot,
\* whether the ledger has a FREE record, an INUSE record or no record of
\* the path, and fails with CloneProvisionError when path is not a depot;
\* in both cases the ledger is the same after the call as before it.
C23_FromPathIgnoresLedger ==
    \A p \in Procs :
        Done(p, "give_me_depot_from_path") =>
            /\ roster = pre.roster
            /\ proc[p].path \in fs.depots => proc[p].result = "ok"
            /\ proc[p].path \notin fs.depots
               => proc[p].result = "CloneProvisionError"

\* give_me_depot_from_path has returned the depot of a path that has no
\* record.
C23_Witness ==
    \E p \in Procs :
        /\ Done(p, "give_me_depot_from_path")
        /\ proc[p].path \in fs.depots
        /\ proc[p].path \notin DOMAIN roster
        /\ proc[p].result = "ok"

\* C24: after DepotManager has been constructed again over the same root
\* directory the ledger has the records it had, and a main cache that was
\* there is still the main cache and has the changesets it had.
C24_SecondConstructionKeepsState ==
    \A p \in Procs :
        Done(p, "construct") =>
            /\ proc[p].result = "ok"
            /\ roster = pre.roster
            /\ pre.main = "C" => dep.main = "C" /\ dep.has["C"] = pre.cache

\* A DepotManager has been constructed over a root directory whose ledger
\* has a record and whose main cache has changesets.
C24_Witness ==
    \E p \in Procs :
        /\ Done(p, "construct")
        /\ pre.main = "C"
        /\ pre.cache # {}
        /\ pre.roster # <<>>

\* C25: the processes, each with its own Roster instance on the file, see
\* one table.  An assignment or free_clone through one instance on a row
\* that is INUSE for the task of another fails with RosterError and changes
\* nothing; reserve_clone through one instance takes a FREE row whoever
\* wrote it, and returns no row that was INUSE for the task of another
\* when the call began; and a Roster opened on the file has the rows the
\* file had.
C25_OneSharedTable ==
    \A p \in Procs :
        /\ (Done(p, "setitem") \/ Done(p, "free_clone"))
           => \A q \in Procs \ {p} :
                (/\ proc[p].path \in DOMAIN pre.roster
                 /\ pre.roster[proc[p].path] =
                        Clone(proc[p].path, INUSE, q, TaskName(q),
                              pre.roster[proc[p].path].timestamp))
                => proc[p].result = "RosterError" /\ roster = pre.roster
        /\ Done(p, "reserve_clone")
           => /\ FreeRows(pre.roster) # {}
                 => /\ proc[p].result = "ok"
                    /\ \E x \in FreeRows(pre.roster) :
                          /\ roster[x].status = INUSE
                          /\ roster[x].task = p
              /\ proc[p].result = "ok"
                 => ~(/\ pre.roster[proc[p].rec.path].status = INUSE
                      /\ pre.roster[proc[p].rec.path].task # p)
        /\ Done(p, "roster_init")
           => proc[p].result = "ok" /\ roster = pre.roster

\* reserve_clone through one instance has returned a row that another
\* instance had written as FREE.
C25_Witness ==
    \E p \in Procs : \E q \in Procs \ {p} :
        /\ Done(p, "reserve_clone")
        /\ proc[p].result = "ok"
        /\ pre.roster[proc[p].rec.path] =
               Clone(proc[p].rec.path, FREE, q, TaskName(q),
                     pre.roster[proc[p].rec.path].timestamp)

\* C26: free_clone by any task on a row that is FREE succeeds and leaves
\* the row FREE, the other rows unchanged and no row added or removed; so a
\* second free_clone leaves the status the first one left.
C26_FreeOfFreeRow ==
    \A p \in Procs :
        (/\ Done(p, "free_clone")
         /\ proc[p].path \in DOMAIN pre.roster
         /\ pre.roster[proc[p].path].status = FREE)
        => /\ proc[p].result = "ok"
           /\ DOMAIN roster = DOMAIN pre.roster
           /\ roster[proc[p].path].status = FREE
           /\ \A x \in DOMAIN roster \ {proc[p].path} :
                  roster[x] = pre.roster[x]

\* A task has freed a row that another task had left FREE.
C26_Witness ==
    \E p \in Procs :
        /\ Done(p, "free_clone")
        /\ proc[p].path \in DOMAIN pre.roster
        /\ pre.roster[proc[p].path].status = FREE
        /\ pre.roster[proc[p].path].task # p
        /\ proc[p].result = "ok"

\* C27: free_depot on a depot whose record is FREE returns without error
\* and leaves the record FREE.
C27_FreeDepotOfFreeRecord ==
    \A p \in Procs :
        (/\ Done(p, "free_depot")
         /\ proc[p].path \in DOMAIN pre.roster
         /\ pre.roster[proc[p].path].status = FREE)
        => /\ proc[p].result = "ok"
           /\ roster[proc[p].path].status = FREE

\* C28: add for a path that is stored fails with RosterError and leaves the
\* table as it was, whatever the status, owner and age of the stored row;
\* add for a path that is not stored, on a table below max_clones, returns
\* the row it stored: INUSE, with the caller's task and task name, stamped
\* with the time of the write.
C28_AddExistingOrNew ==
    \A p \in Procs :
        Done(p, "add") =>
            /\ proc[p].path \in DOMAIN pre.roster
               => proc[p].result = "RosterError" /\ roster = pre.roster
            /\ (/\ proc[p].path \notin DOMAIN pre.roster
                /\ Cardinality(DOMAIN pre.roster) < MaxClones)
               => /\ proc[p].result = "ok"
                  /\ proc[p].rec = roster[proc[p].path]
                  /\ proc[p].rec =
                        Clone(proc[p].path, INUSE, p, TaskName(p),
                              proc[p].rec.timestamp)
                  /\ pre.now <= proc[p].rec.timestamp
                  /\ proc[p].rec.timestamp <= now

\* add has failed on a path whose stored row was another task's and older
\* than clone_timeout.
C28_Witness ==
    \E p \in Procs :
        /\ Done(p, "add")
        /\ proc[p].path \in DOMAIN pre.roster
        /\ pre.roster[proc[p].path].task # p
        /\ Stale(pre.roster[proc[p].path], pre.now)
        /\ proc[p].result = "RosterError"

\* C29: when _clean_old_clones has run (inside add), every row that was
\* older than clone_timeout when _get_old_clones_ read the table is FREE,
\* whatever its status was, has the task id and task name it had and a
\* timestamp not before that reading; every other row is unchanged; no row
\* was added or removed; and unless the clock has advanced since the
\* reading, no row is older than clone_timeout.
C29_CleanOldClones ==
    \A p \in Procs :
        (pre.set /\ proc[p].op = "add" /\ proc[p].pc = "add_count") =>
            LET t == proc[p].ts IN
            /\ DOMAIN roster = DOMAIN pre.roster
            /\ \A x \in DOMAIN pre.roster :
                  IF Stale(pre.roster[x], t)
                  THEN /\ roster[x] =
                            Clone(x, FREE, pre.roster[x].task,
                                  pre.roster[x].task_name,
                                  roster[x].timestamp)
                       /\ t <= roster[x].timestamp
                       /\ roster[x].timestamp <= now
                  ELSE roster[x] = pre.roster[x]
            /\ now = t => \A x \in DOMAIN roster : ~Stale(roster[x], now)

\* _clean_old_clones has freed a row that was INUSE and older than
\* clone_timeout.
C29_Witness ==
    \E p \in Procs : \E x \in DOMAIN pre.roster :
        /\ pre.set /\ proc[p].op = "add" /\ proc[p].pc = "add_count"
        /\ Stale(pre.roster[x], proc[p].ts)
        /\ pre.roster[x].status = INUSE
        /\ x \in DOMAIN roster
        /\ roster[x].status = FREE

\* C30: while give_me_depot refreshes the depot it got through the main
\* cache, neither the depot nor the main cache has a lock file left by an
\* abandoned operation.
C30_NoStaleLockInUse ==
    \A p \in Procs :
        proc[p].pc = "gmd_refresh"
        => /\ proc[p].path \notin fs.locks
           /\ dep.main = "C" => ~fs.cachelock

\* The list has the row.
InList(list, row) == \E i \in 1..Len(list) : list[i] = row

\* C31: every stored row is in exactly one of get_available() and
\* get_not_available(): in the first when it is FREE, in the second when it
\* is INUSE; get_available_clone(path) returns the row of the path when it
\* is FREE and None otherwise, get_not_available_clone(path) returns it
\* when it is INUSE and None otherwise.
C31_AvailablePartition ==
    /\ \A x \in DOMAIN roster :
        LET free == InList(GetAvailable(roster, scan), roster[x])
            inuse == InList(GetNotAvailable(roster, scan), roster[x]) IN
        /\ free # inuse
        /\ free <=> roster[x].status = FREE
        /\ inuse <=> roster[x].status = INUSE
    /\ \A p \in Procs :
        /\ Done(p, "get_available_clone")
           => proc[p].rec = IF StatusOf(pre.roster, proc[p].path) = FREE
                            THEN pre.roster[proc[p].path] ELSE NoRow
        /\ Done(p, "get_not_available_clone")
           => proc[p].rec = IF StatusOf(pre.roster, proc[p].path) = INUSE
                            THEN pre.roster[proc[p].path] ELSE NoRow

\* get_not_available_clone has returned the INUSE row of a path.
C31_Witness ==
    \E p \in Procs :
        /\ Done(p, "get_not_available_clone")
        /\ StatusOf(pre.roster, proc[p].path) = INUSE
        /\ proc[p].rec = roster[proc[p].path]

\* C32: check_changeset_availability, as request_refresh calls it for each
\* source of the requirement map, returns exactly the requested changesets
\* that the depot does not have.
C32_ReturnsExactlyAbsent ==
    dep.pc # "idle" =>
        \A u \in DOMAIN dep.req :
            CheckChangesetAvailability(dep.kind, dep.had[dep.on], dep.req[u])
                = {c \in dep.req[u] : c \notin dep.had[dep.on]}

C34_ReturnsTheRowItChanged ==
    \A p \in Procs :
        Done(p, "reserve_clone") =>
            /\ proc[p].result = "ok"
               => /\ proc[p].rec.path = proc[p].upd
                  /\ StatusOf(pre.roster, proc[p].rec.path) = FREE
                  /\ proc[p].rec.status = INUSE
            /\ FreeRows(pre.roster) = {}
               => proc[p].result = "RosterError"

\* The paths whose row differs between tables r1 and r2 over the same paths.
Changed(r1, r2) == {x \in DOMAIN r1 : r1[x] # r2[x]}

\* C35: a reserve_clone call adds and removes no row and changes at most
\* one, which was FREE and is now INUSE with the caller's task id and task
\* name; every other row, so every row that was INUSE, is as it was; and
\* when the call fails no row has changed.
C35_ReserveChangesOneFreeRow ==
    \A p \in Procs :
        Done(p, "reserve_clone") =>
            /\ DOMAIN roster = DOMAIN pre.roster
            /\ Cardinality(Changed(pre.roster, roster)) <= 1
            /\ \A x \in Changed(pre.roster, roster) :
                /\ pre.roster[x].status = FREE
                /\ roster[x] = Clone(x, INUSE, p, TaskName(p),
                                     roster[x].timestamp)
            /\ \A x \in DOMAIN pre.roster :
                pre.roster[x].status = INUSE => roster[x] = pre.roster[x]
            /\ proc[p].result # "ok" => roster = pre.roster

\* reserve_clone has set one of two FREE rows INUSE and left the other as
\* it was.
C35_Witness ==
    \E p \in Procs :
        /\ Done(p, "reserve_clone")
        /\ Cardinality(FreeRows(pre.roster)) = 2
        /\ Cardinality(Changed(pre.roster, roster)) = 1
        /\ proc[p].result = "ok"

\* C36: when a give_me_depot call has finished, every workspace directory
\* it made has a record in the ledger.
C36_ProvisionedHasRecord ==
    \A p \in Procs :
        Done(p, "give_me_depot") => (dirs \ pre.dirs) \subseteq DOMAIN roster

\* C37: when a give_me_depot call has failed, no record that the call
\* reserved or added is INUSE for the caller.
C37_FailedCallHoldsNothing ==
    \A p \in Procs :
        (Done(p, "give_me_depot") /\ proc[p].result # "ok") =>
            \A x \in DOMAIN roster :
                (x \notin DOMAIN pre.roster \/ roster[x] # pre.roster[x])
                => ~(roster[x].status = INUSE /\ roster[x].task = p)

\* The pool of the observed call was full, every row INUSE and some row
\* older than clone_timeout when the call began.
FullAndStale ==
    /\ Cardinality(DOMAIN pre.roster) = MaxClones
    /\ \A x \in DOMAIN pre.roster : pre.roster[x].status = INUSE
    /\ \E x \in DOMAIN pre.roster : Stale(pre.roster[x], pre.now)

\* C38: give_me_depot on a pool that holds max_clones records,
\* all INUSE and one at least older than clone_timeout, fails with
\* MaxClonesLimitReached and leaves every record that was older than
\* clone_timeout FREE.
C38_StaleCostsOneCall ==
    \A p \in Procs :
        (Done(p, "give_me_depot") /\ FullAndStale)
        => /\ proc[p].result = "MaxClonesLimitReached"
           /\ \A x \in DOMAIN pre.roster :
                Stale(pre.roster[x], pre.now) => roster[x].status = FREE

\* C39: no step of a DepotManager operation (construction, give_me_depot,
\* give_me_depot_from_path, free_depot, the lookups) removes a record from
\* the ledger or a workspace directory from the disk, and none makes a
\* depot cease to be one: the stored paths and the directories only grow.
C39_LedgerOnlyGrows ==
    [][/\ DOMAIN roster \subseteq DOMAIN roster'
       /\ dirs \subseteq dirs'
       /\ fs.depots \subseteq fs.depots']_vars

\* A free_depot has returned and the record and the directory of its depot
\* are still there.
C39_Witness ==
    \E p \in Procs :
        /\ Done(p, "free_depot")
        /\ proc[p].result = "ok"
        /\ proc[p].path \in DOMAIN pre.roster
        /\ proc[p].path \in DOMAIN roster
        /\ proc[p].path \in dirs

====
